---- MODULE Spec2Model ----
(***************************************************************************)
(* The chat backend of src/app.py: the /api/chat handler, the responder    *)
(* generate_response, the two stores and the mail sink, and the Lead       *)
(* Extractor extract_contact_info.                                         *)
(*                                                                         *)
(* A Python str is a sequence of one-character strings, so that lower(),   *)
(* strip(), split() and the `in` substring test are computed, not assumed. *)
(***************************************************************************)
EXTENDS Integers, Sequences, FiniteSets, TLC

(***************************************************************************)
(* The string literals of src/app.py, and the texts the inputs are drawn   *)
(* from.                                                                   *)
(***************************************************************************)
\* '\nYou are a customer service chatbot for Sattva Tech company. Your role is to:\n1. 
\* Answer questions about the company, its services, and job vacancies\n2. Politely dec
\* line to answer questions not related to the company\n3. Ask for contact information 
\* when appropriate\n\nGuidelines:\n- Keep responses professional and friendly\n- For o
\* ff-topic questions, respond with the configured OFF_TOPIC_RESPONSE\n- When appropria
\* te, ask the configured CONTACT_PROMPT\n- Never make up information\n'
SYSTEM_PROMPT ==
    <<"\n", "Y", "o", "u", " ", "a", "r", "e", " ", "a", " ", "c", "u", "s", "t", "o",
      "m", "e", "r", " ", "s", "e", "r", "v", "i", "c", "e", " ", "c", "h", "a", "t",
      "b", "o", "t", " ", "f", "o", "r", " ", "S", "a", "t", "t", "v", "a", " ", "T",
      "e", "c", "h", " ", "c", "o", "m", "p", "a", "n", "y", ".", " ", "Y", "o", "u",
      "r", " ", "r", "o", "l", "e", " ", "i", "s", " ", "t", "o", ":", "\n", "1", ".",
      " ", "A", "n", "s", "w", "e", "r", " ", "q", "u", "e", "s", "t", "i", "o", "n",
      "s", " ", "a", "b", "o", "u", "t", " ", "t", "h", "e", " ", "c", "o", "m", "p",
      "a", "n", "y", ",", " ", "i", "t", "s", " ", "s", "e", "r", "v", "i", "c", "e",
      "s", ",", " ", "a", "n", "d", " ", "j", "o", "b", " ", "v", "a", "c", "a", "n",
      "c", "i", "e", "s", "\n", "2", ".", " ", "P", "o", "l", "i", "t", "e", "l", "y",
      " ", "d", "e", "c", "l", "i", "n", "e", " ", "t", "o", " ", "a", "n", "s", "w",
      "e", "r", " ", "q", "u", "e", "s", "t", "i", "o", "n", "s", " ", "n", "o", "t",
      " ", "r", "e", "l", "a", "t", "e", "d", " ", "t", "o", " ", "t", "h", "e", " ",
      "c", "o", "m", "p", "a", "n", "y", "\n", "3", ".", " ", "A", "s", "k", " ", "f",
      "o", "r", " ", "c", "o", "n", "t", "a", "c", "t", " ", "i", "n", "f", "o", "r",
      "m", "a", "t", "i", "o", "n", " ", "w", "h", "e", "n", " ", "a", "p", "p", "r",
      "o", "p", "r", "i", "a", "t", "e", "\n", "\n", "G", "u", "i", "d", "e", "l", "i",
      "n", "e", "s", ":", "\n", "-", " ", "K", "e", "e", "p", " ", "r", "e", "s", "p",
      "o", "n", "s", "e", "s", " ", "p", "r", "o", "f", "e", "s", "s", "i", "o", "n",
      "a", "l", " ", "a", "n", "d", " ", "f", "r", "i", "e", "n", "d", "l", "y", "\n",
      "-", " ", "F", "o", "r", " ", "o", "f", "f", "-", "t", "o", "p", "i", "c", " ",
      "q", "u", "e", "s", "t", "i", "o", "n", "s", ",", " ", "r", "e", "s", "p", "o",
      "n", "d", " ", "w", "i", "t", "h", " ", "t", "h", "e", " ", "c", "o", "n", "f",
      "i", "g", "u", "r", "e", "d", " ", "O", "F", "F", "_", "T", "O", "P", "I", "C",
      "_", "R", "E", "S", "P", "O", "N", "S", "E", "\n", "-", " ", "W", "h", "e", "n",
      " ", "a", "p", "p", "r", "o", "p", "r", "i", "a", "t", "e", ",", " ", "a", "s",
      "k", " ", "t", "h", "e", " ", "c", "o", "n", "f", "i", "g", "u", "r", "e", "d",
      " ", "C", "O", "N", "T", "A", "C", "T", "_", "P", "R", "O", "M", "P", "T", "\n",
      "-", " ", "N", "e", "v", "e", "r", " ", "m", "a", "k", "e", " ", "u", "p", " ",
      "i", "n", "f", "o", "r", "m", "a", "t", "i", "o", "n", "\n">>

\* "I'm having trouble processing your request. Please try again later."
FALLBACK ==
    <<"I", "'", "m", " ", "h", "a", "v", "i", "n", "g", " ", "t", "r", "o", "u", "b",
      "l", "e", " ", "p", "r", "o", "c", "e", "s", "s", "i", "n", "g", " ", "y", "o",
      "u", "r", " ", "r", "e", "q", "u", "e", "s", "t", ".", " ", "P", "l", "e", "a",
      "s", "e", " ", "t", "r", "y", " ", "a", "g", "a", "i", "n", " ", "l", "a", "t",
      "e", "r", ".">>

\* '\n\nThank you for your contact information! Our team will reach out to you soon.'
THANKS ==
    <<"\n", "\n", "T", "h", "a", "n", "k", " ", "y", "o", "u", " ", "f", "o", "r", " ",
      "y", "o", "u", "r", " ", "c", "o", "n", "t", "a", "c", "t", " ", "i", "n", "f",
      "o", "r", "m", "a", "t", "i", "o", "n", "!", " ", "O", "u", "r", " ", "t", "e",
      "a", "m", " ", "w", "i", "l", "l", " ", "r", "e", "a", "c", "h", " ", "o", "u",
      "t", " ", "t", "o", " ", "y", "o", "u", " ", "s", "o", "o", "n", ".">>

\* '\n\nChat history:\n'
ChatHistoryHeader ==
    <<"\n", "\n", "C", "h", "a", "t", " ", "h", "i", "s", "t", "o", "r", "y", ":", "\n">>

\* '\nUser: '
UserPrefix ==
    <<"\n", "U", "s", "e", "r", ":", " ">>

\* '\nAssistant:'
AssistantSuffix ==
    <<"\n", "A", "s", "s", "i", "s", "t", "a", "n", "t", ":">>

\* 'My name: Jane Doe\nemail: jane@x.com'
JaneMessage ==
    <<"M", "y", " ", "n", "a", "m", "e", ":", " ", "J", "a", "n", "e", " ", "D", "o",
      "e", "\n", "e", "m", "a", "i", "l", ":", " ", "j", "a", "n", "e", "@", "x", ".",
      "c", "o", "m">>

\* 'name: Bob\nemail: bob@x.com'
BobMessage ==
    <<"n", "a", "m", "e", ":", " ", "B", "o", "b", "\n", "e", "m", "a", "i", "l", ":",
      " ", "b", "o", "b", "@", "x", ".", "c", "o", "m">>

\* 'default_session'
DEFAULT_SESSION ==
    <<"d", "e", "f", "a", "u", "l", "t", "_", "s", "e", "s", "s", "i", "o", "n">>

\* 's1'
SessionS1 ==
    <<"s", "1">>

\* 'user'
RoleUser ==
    <<"u", "s", "e", "r">>

\* 'assistant'
RoleAssistant ==
    <<"a", "s", "s", "i", "s", "t", "a", "n", "t">>

\* 'From chat'
FROM_CHAT ==
    <<"F", "r", "o", "m", " ", "c", "h", "a", "t">>

\* ': '
ColonSpace ==
    <<":", " ">>

\* '\n'
Newline ==
    <<"\n">>

\* 'name'
KeywordName ==
    <<"n", "a", "m", "e">>

\* 'email'
KeywordEmail ==
    <<"e", "m", "a", "i", "l">>

\* 'phone'
KeywordPhone ==
    <<"p", "h", "o", "n", "e">>

\* 'Hi'
HiMessage ==
    <<"H", "i">>

\* 'my name is Bob'
NameIsMessage ==
    <<"m", "y", " ", "n", "a", "m", "e", " ", "i", "s", " ", "B", "o", "b">>

\* 'Could you Share your contact details?'
PromptAsk ==
    <<"C", "o", "u", "l", "d", " ", "y", "o", "u", " ", "S", "h", "a", "r", "e", " ",
      "y", "o", "u", "r", " ", "c", "o", "n", "t", "a", "c", "t", " ", "d", "e", "t",
      "a", "i", "l", "s", "?">>

\* 'Please Try Again'
PromptRetry ==
    <<"P", "l", "e", "a", "s", "e", " ", "T", "r", "y", " ", "A", "g", "a", "i", "n">>

\* 'Hello! How can I help?'
TextHello ==
    <<"H", "e", "l", "l", "o", "!", " ", "H", "o", "w", " ", "c", "a", "n", " ", "I",
      " ", "h", "e", "l", "p", "?">>

\* 'Sure. Could you share your contact details?'
TextAsk ==
    <<"S", "u", "r", "e", ".", " ", "C", "o", "u", "l", "d", " ", "y", "o", "u", " ",
      "s", "h", "a", "r", "e", " ", "y", "o", "u", "r", " ", "c", "o", "n", "t", "a",
      "c", "t", " ", "d", "e", "t", "a", "i", "l", "s", "?">>

\* 'Not provided'
NOT_PROVIDED ==
    <<"N", "o", "t", " ", "p", "r", "o", "v", "i", "d", "e", "d">>

\* 'General inquiry'
GENERAL_INQUIRY ==
    <<"G", "e", "n", "e", "r", "a", "l", " ", "i", "n", "q", "u", "i", "r", "y">>

\* 'Jane Doe'
JaneDoe ==
    <<"J", "a", "n", "e", " ", "D", "o", "e">>

\* 'jane@x.com'
JaneEmail ==
    <<"j", "a", "n", "e", "@", "x", ".", "c", "o", "m">>


(***************************************************************************)
(* Python str and list operations used by src/app.py.                      *)
(***************************************************************************)
UpperLetters ==
    <<"A", "B", "C", "D", "E", "F", "G", "H", "I", "J", "K", "L", "M",
      "N", "O", "P", "Q", "R", "S", "T", "U", "V", "W", "X", "Y", "Z">>

LowerLetters ==
    <<"a", "b", "c", "d", "e", "f", "g", "h", "i", "j", "k", "l", "m",
      "n", "o", "p", "q", "r", "s", "t", "u", "v", "w", "x", "y", "z">>

Whitespace == {" ", "\t", "\n", "\r", "\f"}

LowerChar(c) ==
    IF \E i \in DOMAIN UpperLetters : UpperLetters[i] = c
    THEN LowerLetters[CHOOSE i \in DOMAIN UpperLetters : UpperLetters[i] = c]
    ELSE c

\* s.lower()
str_lower(s) == [i \in 1..Len(s) |-> LowerChar(s[i])]

\* sub in s
str_in(sub, s) ==
    \E i \in 0..(Len(s) - Len(sub)) : SubSeq(s, i + 1, i + Len(sub)) = sub

\* s.split(sep), sep one character
RECURSIVE str_split(_, _)
str_split(s, sep) ==
    IF \A i \in 1..Len(s) : s[i] # sep
    THEN <<s>>
    ELSE LET k == CHOOSE i \in 1..Len(s) :
                      s[i] = sep /\ \A j \in 1..(i - 1) : s[j] # sep
         IN  <<SubSeq(s, 1, k - 1)>> \o str_split(SubSeq(s, k + 1, Len(s)), sep)

\* s.split(sep, 1): at most one split, at the first sep
str_split1(s, sep) ==
    IF \A i \in 1..Len(s) : s[i] # sep
    THEN <<s>>
    ELSE LET k == CHOOSE i \in 1..Len(s) :
                      s[i] = sep /\ \A j \in 1..(i - 1) : s[j] # sep
         IN  <<SubSeq(s, 1, k - 1), SubSeq(s, k + 1, Len(s))>>

\* s.strip()
str_strip(s) ==
    IF \A i \in 1..Len(s) : s[i] \in Whitespace
    THEN << >>
    ELSE LET a == CHOOSE i \in 1..Len(s) :
                      s[i] \notin Whitespace /\ \A j \in 1..(i - 1) : s[j] \in Whitespace
             b == CHOOSE i \in 1..Len(s) :
                      s[i] \notin Whitespace /\ \A j \in (i + 1)..Len(s) : s[j] \in Whitespace
         IN  SubSeq(s, a, b)

\* s.endswith(suffix)
str_endswith(s, suffix) ==
    /\ Len(suffix) <= Len(s)
    /\ SubSeq(s, Len(s) - Len(suffix) + 1, Len(s)) = suffix

\* a dict is a function from its keys; d[k] = v
EmptyDict == [k \in {} |-> << >>]

dict_set(d, k, v) == [x \in DOMAIN d \cup {k} |-> IF x = k THEN v ELSE d[x]]

\* lst[-n:]  (a slice never raises; -0 is 0, so lst[-0:] is lst[0:])
list_tail(lst, n) ==
    IF n = 0 THEN lst
    ELSE IF n > 0
         THEN SubSeq(lst, (IF Len(lst) > n THEN Len(lst) - n ELSE 0) + 1, Len(lst))
         ELSE SubSeq(lst, (IF Len(lst) > -n THEN -n ELSE Len(lst)) + 1, Len(lst))

(***************************************************************************)
(* extract_contact_info, src/app.py 104-116.                               *)
(***************************************************************************)
NameMarker == <<"n", "a", "m", "e", ":">>
EmailMarker == <<"e", "m", "a", "i", "l", ":">>
PhoneMarker == <<"p", "h", "o", "n", "e", ":">>

\* line.split(':', 1)[1].strip(); the guard of each branch puts a colon in the
\* line, so the index never raises
after_colon(line) == str_strip(str_split1(line, ":")[2])

RECURSIVE extract_loop(_, _, _)
extract_loop(lines, i, info) ==
    IF i > Len(lines) THEN info
    ELSE LET line == lines[i] IN
         IF str_in(NameMarker, str_lower(line))
         THEN extract_loop(lines, i + 1, dict_set(info, "name", after_colon(line)))
         ELSE IF str_in(EmailMarker, str_lower(line))
         THEN extract_loop(lines, i + 1, dict_set(info, "email", after_colon(line)))
         ELSE IF str_in(PhoneMarker, str_lower(line))
         THEN extract_loop(lines, i + 1, dict_set(info, "phone", after_colon(line)))
         ELSE extract_loop(lines, i + 1, info)

\* the same loop with the markers tested against the line as typed
RECURSIVE extract_loop_cased(_, _, _)
extract_loop_cased(lines, i, info) ==
    IF i > Len(lines) THEN info
    ELSE LET line == lines[i] IN
         IF str_in(NameMarker, line)
         THEN extract_loop_cased(lines, i + 1, dict_set(info, "name", after_colon(line)))
         ELSE IF str_in(EmailMarker, line)
         THEN extract_loop_cased(lines, i + 1, dict_set(info, "email", after_colon(line)))
         ELSE IF str_in(PhoneMarker, line)
         THEN extract_loop_cased(lines, i + 1, dict_set(info, "phone", after_colon(line)))
         ELSE extract_loop_cased(lines, i + 1, info)

extract_contact_info_cased(message) ==
    extract_loop_cased(str_split(message, "\n"), 1, EmptyDict)

extract_contact_info(message) ==
    extract_loop(str_split(message, "\n"), 1, EmptyDict)

(***************************************************************************)
(* Bounds of the model.                                                    *)
(***************************************************************************)
MaxRequests == 2       \* chat requests served one after another (Spec)
NumThreads == 2        \* chat requests in flight together (SpecConc)
MaxHistory == 2        \* MAX_CHAT_HISTORY ranges over 0..MaxHistory
MaxHistLen == 3        \* longest history handed to generate_response (SpecGen)
MaxParts == 4          \* pieces a message is put together from (SpecExtract)

(***************************************************************************)
(* State.                                                                  *)
(***************************************************************************)
VARIABLES
    app_config,         \* app.config, set once as the application starts
    chats_collection,   \* db['chat_logs'], the documents in insertion order
    leads_collection,   \* db['leads'], the documents in insertion order
    outbox,             \* the mails the SMTP server accepted
    clock,              \* datetime.utcnow()
    req,                \* the invocations of chat(), each with its locals
    call                \* one direct call of a function and its return value

vars == <<app_config, chats_collection, leads_collection, outbox, clock, req, call>>

\* app.config['MAX_CHAT_HISTORY'], src/app.py 52
MAX_CHAT_HISTORY == app_config.MAX_CHAT_HISTORY

\* app.config['CONTACT_PROMPT'], src/app.py 143
CONTACT_PROMPT == app_config.CONTACT_PROMPT

SeqsUpTo(S, n) == UNION {[1..k -> S] : k \in 0..n}

RECURSIVE concat_all(_)
concat_all(ss) == IF ss = << >> THEN << >> ELSE Head(ss) \o concat_all(Tail(ss))

\* d.get(k, default)
dict_get(d, k, default) == IF k \in DOMAIN d THEN d[k] ELSE default

(***************************************************************************)
(* generate_response, src/app.py 47-60.  The model service is the outcome: *)
(* it raises (ok = FALSE) or returns response.text.                        *)
(***************************************************************************)
\* the loop of lines 52-53: msg['role'] and msg['content'] raise KeyError on
\* a document without that key
RECURSIVE format_history(_, _, _)
format_history(turns, i, context) ==
    IF i > Len(turns) THEN [raised |-> "", context |-> context]
    ELSE LET msg == turns[i] IN
         IF "role" \notin DOMAIN msg \/ "content" \notin DOMAIN msg
         THEN [raised |-> "KeyError", context |-> context]
         ELSE format_history(turns, i + 1,
                  context \o msg.role \o ColonSpace \o msg.content \o Newline)

\* generate_response whose handler catches KeyError alone
generate_response_narrow(prompt, chat_history, outcome) ==
    LET turns == list_tail(chat_history, MAX_CHAT_HISTORY)
        built == format_history(turns, 1, SYSTEM_PROMPT \o ChatHistoryHeader)
        full_prompt == built.context \o UserPrefix \o prompt \o AssistantSuffix
    IN  IF built.raised # ""
        THEN [text |-> FALLBACK, escaped |-> FALSE, raised |-> built.raised,
              model_called |-> FALSE, turns |-> turns, full_prompt |-> << >>]
        ELSE IF ~outcome.ok
        THEN [text |-> << >>, escaped |-> TRUE, raised |-> "ModelError",
              model_called |-> TRUE, turns |-> turns, full_prompt |-> full_prompt]
        ELSE [text |-> outcome.text, escaped |-> FALSE, raised |-> "",
              model_called |-> TRUE, turns |-> turns, full_prompt |-> full_prompt]

\* text: the return value; escaped: an exception left the function; raised:
\* what the try block raised; turns: the slice the loop walks; full_prompt:
\* the prompt handed to the model, when the loop got that far
generate_response(prompt, chat_history, outcome) ==
    LET turns == list_tail(chat_history, MAX_CHAT_HISTORY)
        built == format_history(turns, 1, SYSTEM_PROMPT \o ChatHistoryHeader)
        full_prompt == built.context \o UserPrefix \o prompt \o AssistantSuffix
    IN  IF built.raised # ""
        THEN [text |-> FALLBACK, escaped |-> FALSE, raised |-> built.raised,
              model_called |-> FALSE, turns |-> turns, full_prompt |-> << >>]
        ELSE IF ~outcome.ok
        THEN [text |-> FALLBACK, escaped |-> FALSE, raised |-> "ModelError",
              model_called |-> TRUE, turns |-> turns, full_prompt |-> full_prompt]
        ELSE [text |-> outcome.text, escaped |-> FALSE, raised |-> "",
              model_called |-> TRUE, turns |-> turns, full_prompt |-> full_prompt]

(***************************************************************************)
(* The stores.                                                             *)
(***************************************************************************)
\* store_chat writing the session's one document per role
store_chat_replacing(session_id, role, message) ==
    Append(SelectSeq(chats_collection,
                     LAMBDA d : ~(d.session_id = session_id /\ d.role = role)),
           [_id |-> Len(chats_collection) + 1, session_id |-> session_id,
            role |-> role, message |-> message, timestamp |-> clock])

\* store_chat, src/app.py 62-70: the collection after insert_one
store_chat(session_id, role, message) ==
    Append(chats_collection,
           [_id |-> Len(chats_collection) + 1, session_id |-> session_id,
            role |-> role, message |-> message, timestamp |-> clock])

\* .sort("timestamp", 1)
RECURSIVE sort_by_timestamp(_)
sort_by_timestamp(docs) ==
    IF docs = << >> THEN << >>
    ELSE LET k == CHOOSE i \in 1..Len(docs) :
                      \A j \in 1..Len(docs) :
                          \/ docs[i].timestamp < docs[j].timestamp
                          \/ (docs[i].timestamp = docs[j].timestamp /\ i <= j)
         IN  <<docs[k]>> \o sort_by_timestamp(
                 SubSeq(docs, 1, k - 1) \o SubSeq(docs, k + 1, Len(docs)))

\* chats_collection.find({"session_id": ...}, {"_id": 0, "role": 1, "message": 1})
\*     .sort("timestamp", 1), src/app.py 134-137
find_history(session_id) ==
    LET hits == SelectSeq(chats_collection, LAMBDA d : d.session_id = session_id)
        sorted == sort_by_timestamp(hits)
    IN  [i \in 1..Len(sorted) |-> [role |-> sorted[i].role, message |-> sorted[i].message]]

\* lead_data of store_lead, src/app.py 74-79
lead_document(contact_info) ==
    dict_set(dict_set(dict_set(contact_info, "timestamp", clock),
                      "followed_up", FALSE),
             "_id", Len(leads_collection) + 1)

\* the text of the mail of send_contact_email, src/app.py 85-92
contact_mail(contact_info) ==
    [name |-> dict_get(contact_info, "name", NOT_PROVIDED),
     email |-> dict_get(contact_info, "email", NOT_PROVIDED),
     phone |-> dict_get(contact_info, "phone", NOT_PROVIDED),
     interest |-> dict_get(contact_info, "interest", GENERAL_INQUIRY),
     timestamp |-> clock]

(***************************************************************************)
(* The decisions of chat(), src/app.py 143 and 149-151.                    *)
(***************************************************************************)
\* app.config['CONTACT_PROMPT'].lower() in response.lower()
contact_requested(response) ==
    str_in(str_lower(CONTACT_PROMPT), str_lower(response))

\* any(keyword in message.lower() for keyword in ["name", "email", "phone"])
has_keyword(message) ==
    \E keyword \in {KeywordName, KeywordEmail, KeywordPhone} :
        str_in(keyword, str_lower(message))

\* line 155 without the suffix
acknowledged_bare(response) == response

\* line 155: response += "\n\nThank you ..."
acknowledged(response) == response \o THANKS

\* the two tests of line 149 joined by `or`
lead_condition_or(requested, message) == requested \/ has_keyword(message)

\* the condition of line 149
lead_condition(requested, message) == requested /\ has_keyword(message)

(***************************************************************************)
(* chat(), src/app.py 124-157, one action per call that reaches a store,   *)
(* the model service or the mail server.  An exception that leaves chat()  *)
(* ends the request without a response (pc = "aborted").                   *)
(***************************************************************************)
IdleRequest ==
    [pc |-> "idle", session_id |-> << >>, message |-> << >>, prior |-> << >>,
     chat_history |-> << >>, turns |-> << >>, model_called |-> FALSE,
     raised |-> "", reply |-> << >>, contact_requested |-> FALSE,
     contact_info |-> EmptyDict, response |-> << >>,
     user_id |-> 0, assistant_id |-> 0, lead_id |-> 0,
     mail_tried |-> FALSE, notified |-> FALSE]

InFlight(r) == req[r].pc \notin {"idle", "done", "aborted"}

\* lines 126-128: the JSON body, with the defaults of data.get; prior is the
\* session's history as the request arrives
Receive(r, serial, bodies) ==
    /\ req[r].pc = "idle"
    /\ \A q \in DOMAIN req : q < r => req[q].pc # "idle"
    /\ serial => \A q \in DOMAIN req : ~InFlight(q)
    /\ \E data \in bodies :
         LET session_id == dict_get(data, "session_id", DEFAULT_SESSION)
             message == dict_get(data, "message", << >>)
         IN  req' = [req EXCEPT ![r] =
                        [@ EXCEPT !.pc = "store_user",
                                  !.session_id = session_id,
                                  !.message = message,
                                  !.prior = find_history(session_id)]]
    /\ UNCHANGED <<app_config, chats_collection, leads_collection, outbox, clock, call>>

\* line 131
StoreUser(r) ==
    /\ req[r].pc = "store_user"
    /\ chats_collection' = store_chat(req[r].session_id, RoleUser, req[r].message)
    /\ clock' = clock + 1
    /\ req' = [req EXCEPT ![r] =
                  [@ EXCEPT !.pc = "load",
                            !.user_id = Len(chats_collection')]]
    /\ UNCHANGED <<app_config, leads_collection, outbox, call>>

\* line 131, insert_one raising: nothing catches it
StoreUserFails(r) ==
    /\ req[r].pc = "store_user"
    /\ clock' = clock + 1
    /\ req' = [req EXCEPT ![r] = [@ EXCEPT !.pc = "aborted"]]
    /\ UNCHANGED <<app_config, chats_collection, leads_collection, outbox, call>>

\* lines 134-137
LoadHistory(r) ==
    /\ req[r].pc = "load"
    /\ req' = [req EXCEPT ![r] =
                  [@ EXCEPT !.pc = "generate",
                            !.chat_history = find_history(req[r].session_id)]]
    /\ UNCHANGED <<app_config, chats_collection, leads_collection, outbox, clock, call>>

\* lines 140 and 143
Generate(r, outcomes) ==
    /\ req[r].pc = "generate"
    /\ \E outcome \in outcomes :
         LET g == generate_response(req[r].message, req[r].chat_history, outcome)
         IN  req' = [req EXCEPT ![r] =
                        IF g.escaped
                        THEN [@ EXCEPT !.pc = "aborted", !.raised = g.raised]
                        ELSE [@ EXCEPT !.pc = "store_assistant",
                                       !.turns = g.turns,
                                       !.model_called = g.model_called,
                                       !.raised = g.raised,
                                       !.reply = g.text,
                                       !.response = g.text,
                                       !.contact_requested = contact_requested(g.text)]]
    /\ UNCHANGED <<app_config, chats_collection, leads_collection, outbox, clock, call>>

\* line 146
StoreAssistant(r) ==
    /\ req[r].pc = "store_assistant"
    /\ chats_collection' = store_chat(req[r].session_id, RoleAssistant, req[r].response)
    /\ clock' = clock + 1
    /\ req' = [req EXCEPT ![r] =
                  [@ EXCEPT !.pc = "detect",
                            !.assistant_id = Len(chats_collection')]]
    /\ UNCHANGED <<app_config, leads_collection, outbox, call>>

\* line 146, insert_one raising
StoreAssistantFails(r) ==
    /\ req[r].pc = "store_assistant"
    /\ clock' = clock + 1
    /\ req' = [req EXCEPT ![r] = [@ EXCEPT !.pc = "aborted"]]
    /\ UNCHANGED <<app_config, chats_collection, leads_collection, outbox, call>>

\* lines 149-153, and line 157 when there is no lead
Detect(r) ==
    /\ req[r].pc = "detect"
    /\ LET info == extract_contact_info(req[r].message)
       IN  req' = [req EXCEPT ![r] =
                      IF /\ lead_condition(req[r].contact_requested, req[r].message)
                         /\ DOMAIN info # {}
                      THEN [@ EXCEPT !.pc = "store_lead",
                                     !.contact_info =
                                         dict_set(dict_set(info, "session_id",
                                                           req[r].session_id),
                                                  "interest", FROM_CHAT)]
                      ELSE [@ EXCEPT !.pc = "done"]]
    /\ UNCHANGED <<app_config, chats_collection, leads_collection, outbox, clock, call>>

\* store_lead, lines 74-79
StoreLead(r) ==
    /\ req[r].pc = "store_lead"
    /\ leads_collection' = Append(leads_collection, lead_document(req[r].contact_info))
    /\ clock' = clock + 1
    /\ req' = [req EXCEPT ![r] =
                  [@ EXCEPT !.pc = "send_email",
                            !.lead_id = Len(leads_collection')]]
    /\ UNCHANGED <<app_config, chats_collection, outbox, call>>

\* line 79, insert_one raising: it leaves store_lead before line 80 and then chat()
StoreLeadFails(r) ==
    /\ req[r].pc = "store_lead"
    /\ clock' = clock + 1
    /\ req' = [req EXCEPT ![r] = [@ EXCEPT !.pc = "aborted"]]
    /\ UNCHANGED <<app_config, chats_collection, leads_collection, outbox, call>>

\* send_contact_email, lines 82-100, then lines 155 and 157
SendEmail(r) ==
    /\ req[r].pc = "send_email"
    /\ outbox' = Append(outbox, contact_mail(req[r].contact_info))
    /\ clock' = clock + 1
    /\ req' = [req EXCEPT ![r] =
                  [@ EXCEPT !.pc = "done",
                            !.mail_tried = TRUE,
                            !.notified = TRUE,
                            !.response = acknowledged(req[r].response)]]
    /\ UNCHANGED <<app_config, chats_collection, leads_collection, call>>

\* send_contact_email raising inside its try, lines 101-102, then lines 155 and 157
SendEmailFails(r) ==
    /\ req[r].pc = "send_email"
    /\ clock' = clock + 1
    /\ req' = [req EXCEPT ![r] =
                  [@ EXCEPT !.pc = "done",
                            !.mail_tried = TRUE,
                            !.response = acknowledged(req[r].response)]]
    /\ UNCHANGED <<app_config, chats_collection, leads_collection, outbox, call>>

(***************************************************************************)
(* Inputs.                                                                 *)
(***************************************************************************)
ContactPrompts == {PromptAsk, PromptRetry}

ModelOutcomes ==
    {[ok |-> FALSE, text |-> << >>]}
        \cup {[ok |-> TRUE, text |-> t] : t \in {TextHello, TextAsk}}

\* request.json: session_id and message are each present or not
Bodies(key_sets, sessions, messages) ==
    {[k \in ks |-> IF k = "session_id" THEN s ELSE m] :
        ks \in key_sets, s \in sessions, m \in messages}

RequestBodies ==
    Bodies(SUBSET {"session_id", "message"}, {SessionS1},
           {HiMessage, NameIsMessage, BobMessage})

ConcBodies ==
    Bodies({{"message"}, {"session_id", "message"}}, {SessionS1}, {HiMessage})

NoCall == [fn |-> "none"]

(***************************************************************************)
(* Spec: the server takes one request at a time; stores and mail may fail. *)
(***************************************************************************)
Init ==
    /\ app_config \in [MAX_CHAT_HISTORY : 0..MaxHistory, CONTACT_PROMPT : ContactPrompts]
    /\ chats_collection = << >>
    /\ leads_collection = << >>
    /\ outbox = << >>
    /\ clock = 1
    /\ req = [r \in 1..MaxRequests |-> IdleRequest]
    /\ call = NoCall

Next ==
    \E r \in 1..MaxRequests :
        \/ Receive(r, TRUE, RequestBodies)
        \/ StoreUser(r)
        \/ StoreUserFails(r)
        \/ LoadHistory(r)
        \/ Generate(r, ModelOutcomes)
        \/ StoreAssistant(r)
        \/ StoreAssistantFails(r)
        \/ Detect(r)
        \/ StoreLead(r)
        \/ StoreLeadFails(r)
        \/ SendEmail(r)
        \/ SendEmailFails(r)

Spec == Init /\ [][Next]_vars

(***************************************************************************)
(* SpecConc: the requests run as threads of the server, no store fails.    *)
(* The messages carry no contact keyword, so every request ends at line    *)
(* 157 after its two writes to the chat log.                               *)
(***************************************************************************)
InitConc ==
    /\ app_config = [MAX_CHAT_HISTORY |-> MaxHistory, CONTACT_PROMPT |-> PromptAsk]
    /\ chats_collection = << >>
    /\ leads_collection = << >>
    /\ outbox = << >>
    /\ clock = 1
    /\ req = [r \in 1..NumThreads |-> IdleRequest]
    /\ call = NoCall

NextConc ==
    \E r \in 1..NumThreads :
        \/ Receive(r, FALSE, ConcBodies)
        \/ StoreUser(r)
        \/ LoadHistory(r)
        \/ Generate(r, ModelOutcomes)
        \/ StoreAssistant(r)
        \/ Detect(r)

SpecConc == InitConc /\ [][NextConc]_vars

(***************************************************************************)
(* SpecGen: generate_response called on its own.                           *)
(***************************************************************************)
HistoryDocs ==
    {[role |-> RoleUser, message |-> HiMessage],
     [role |-> RoleUser, message |-> BobMessage],
     [role |-> RoleAssistant, message |-> TextHello]}

InitGen ==
    /\ app_config \in [MAX_CHAT_HISTORY : 0..MaxHistory, CONTACT_PROMPT : {PromptAsk}]
    /\ chats_collection = << >>
    /\ leads_collection = << >>
    /\ outbox = << >>
    /\ clock = 1
    /\ req = [r \in 1..1 |-> IdleRequest]
    /\ \E prompt \in {HiMessage, BobMessage},
          chat_history \in SeqsUpTo(HistoryDocs, MaxHistLen),
          outcome \in ModelOutcomes :
         call = [fn |-> "generate_response", prompt |-> prompt,
                 chat_history |-> chat_history, outcome |-> outcome,
                 returned |-> FALSE,
                 result |-> [text |-> << >>, escaped |-> FALSE, raised |-> "",
                             model_called |-> FALSE, turns |-> << >>,
                             full_prompt |-> << >>]]

CallGenerate ==
    /\ call.fn = "generate_response"
    /\ ~call.returned
    /\ call' = [call EXCEPT
                   !.returned = TRUE,
                   !.result = generate_response(call.prompt, call.chat_history,
                                                call.outcome)]
    /\ UNCHANGED <<app_config, chats_collection, leads_collection, outbox, clock, req>>

NextGen == CallGenerate

SpecGen == InitGen /\ [][NextGen]_vars

(***************************************************************************)
(* SpecExtract: extract_contact_info called on its own.                    *)
(***************************************************************************)
Pieces ==
    {NameMarker, <<"E", "m", "a", "i", "l", ":">>, <<"P", "H", "O", "N", "E", ":">>,
     <<" ", "B", "o", "\t">>, <<"x">>, <<":">>, <<" ">>, <<"\n">>}

ExtractInputs ==
    {concat_all(p) : p \in SeqsUpTo(Pieces, MaxParts)} \cup {JaneMessage, BobMessage}

InitExtract ==
    /\ app_config = [MAX_CHAT_HISTORY |-> MaxHistory, CONTACT_PROMPT |-> PromptAsk]
    /\ chats_collection = << >>
    /\ leads_collection = << >>
    /\ outbox = << >>
    /\ clock = 1
    /\ req = [r \in 1..1 |-> IdleRequest]
    /\ \E message \in ExtractInputs :
         call = [fn |-> "extract_contact_info", message |-> message,
                 returned |-> FALSE, result |-> EmptyDict]

CallExtract ==
    /\ call.fn = "extract_contact_info"
    /\ ~call.returned
    /\ call' = [call EXCEPT !.returned = TRUE,
                            !.result = extract_contact_info(call.message)]
    /\ UNCHANGED <<app_config, chats_collection, leads_collection, outbox, clock, req>>

NextExtract == CallExtract

SpecExtract == InitExtract /\ [][NextExtract]_vars

(***************************************************************************)
(* The properties.                                                         *)
(***************************************************************************)
Min(a, b) == IF a < b THEN a ELSE b

\* the last min(n, Len(history)) turns
trailing_turns(history, n) ==
    SubSeq(history, Len(history) - Min(n, Len(history)) + 1, Len(history))

\* "<role>: <message>" on a line of its own, turn after turn
RECURSIVE rendered_turns(_)
rendered_turns(turns) ==
    IF turns = << >> THEN << >>
    ELSE Head(turns).role \o ColonSpace \o Head(turns).message \o Newline
             \o rendered_turns(Tail(turns))

GenerateReturned == call.fn = "generate_response" /\ call.returned

\* C1: for every max_history >= 0 and every history, generate_response walks
\* exactly the last min(max_history, length) turns and the prompt it builds is
\* the preamble, those turns rendered in order, and the current user message
\* (so no history line at all for max_history = 0).
C1_PromptHoldsTrailingTurns ==
    GenerateReturned =>
        LET expected == trailing_turns(call.chat_history, MAX_CHAT_HISTORY)
        IN  /\ call.result.turns = expected
            /\ call.result.raised # "KeyError"
            /\ call.result.full_prompt =
                   SYSTEM_PROMPT \o ChatHistoryHeader \o rendered_turns(expected)
                       \o UserPrefix \o call.prompt \o AssistantSuffix

\* C2: when the model call of generate_response fails, generate_response
\* returns the fixed fallback string and no exception leaves it.
C2_FallbackOnModelFailure ==
    (GenerateReturned /\ call.result.model_called /\ ~call.outcome.ok) =>
        /\ call.result.text = FALLBACK
        /\ ~call.result.escaped

\* the model was called and it failed
C2_Witness ==
    /\ GenerateReturned
    /\ call.result.model_called
    /\ ~call.outcome.ok
    /\ call.result.raised = "ModelError"


Generated(r) == req[r].pc \in {"store_assistant", "detect", "store_lead", "send_email", "done"}

Loaded(r) == req[r].pc = "generate" \/ Generated(r)

\* C3: the fallback apology is the reply of a request only when the model
\* service call itself failed, never because of how the loaded history is
\* rendered into the prompt.
C3_FallbackOnlyOnModelFailure ==
    \A r \in DOMAIN req :
        (Generated(r) /\ req[r].reply = FALLBACK) =>
            (req[r].model_called /\ req[r].raised = "ModelError")

HasMarker(message) ==
    \E marker \in {NameMarker, EmailMarker, PhoneMarker} :
        str_in(marker, str_lower(message))

\* C4: a request appends a lead, or sends a notification, only if its reply
\* contains CONTACT_PROMPT (case-insensitive), its message contains one of the
\* keywords name/email/phone and a recognised marker; and it appends at most
\* one lead.
C4_LeadOnlyWhenDetected ==
    /\ \A r \in DOMAIN req :
           (req[r].lead_id # 0 \/ req[r].mail_tried) =>
               /\ str_in(str_lower(CONTACT_PROMPT), str_lower(req[r].reply))
               /\ \E keyword \in {KeywordName, KeywordEmail, KeywordPhone} :
                      str_in(keyword, str_lower(req[r].message))
               /\ HasMarker(req[r].message)
               /\ DOMAIN extract_contact_info(req[r].message) # {}
    /\ Len(leads_collection) = Cardinality({r \in DOMAIN req : req[r].lead_id # 0})
    /\ \A r, q \in DOMAIN req :
           (r # q /\ req[r].lead_id # 0) => req[r].lead_id # req[q].lead_id
    /\ Len(outbox) <= Len(leads_collection)

\* a request has appended its lead
C4_Witness ==
    \E r \in DOMAIN req :
        /\ req[r].lead_id # 0
        /\ leads_collection[req[r].lead_id].session_id = req[r].session_id
        /\ leads_collection[req[r].lead_id].name = <<"B", "o", "b">>

\* C5: a failed write to the history store or the lead store does not abort
\* the request: every request that was received comes to return its response.
C5_WriteFailureDoesNotAbort ==
    \A r \in DOMAIN req : req[r].pc # "aborted"

\* C6: once a lead is extracted, persisting it and notifying about it are
\* independent: a failed notification leaves the persisted lead in place, and
\* a failed lead insert does not keep the notification sink from being called.
C6_PersistAndNotifyIndependent ==
    \A r \in DOMAIN req :
        (req[r].pc \in {"done", "aborted"} /\ DOMAIN req[r].contact_info # {}) =>
            /\ req[r].mail_tried
            /\ req[r].lead_id # 0 => req[r].lead_id \in DOMAIN leads_collection


None == "None"

ExtractReturned == call.fn = "extract_contact_info" /\ call.returned

\* the field of the first marker, in the order name, email, phone, that the
\* line holds in any letter case; None when it holds none
winning_field(line) ==
    IF str_in(NameMarker, str_lower(line)) THEN "name"
    ELSE IF str_in(EmailMarker, str_lower(line)) THEN "email"
    ELSE IF str_in(PhoneMarker, str_lower(line)) THEN "phone"
    ELSE None

\* value is the text of the line after its first colon, less the whitespace
\* around it
is_trimmed_rest(value, line) ==
    \E c \in 1..Len(line) :
        /\ line[c] = ":"
        /\ \A j \in 1..(c - 1) : line[j] # ":"
        /\ \E a \in (c + 1)..(Len(line) + 1) :
               /\ \A j \in (c + 1)..(a - 1) : line[j] \in Whitespace
               /\ \A j \in (a + Len(value))..Len(line) : line[j] \in Whitespace
               /\ a + Len(value) - 1 <= Len(line)
               /\ SubSeq(line, a, a + Len(value) - 1) = value
               /\ value # << >> =>
                      (value[1] \notin Whitespace /\ value[Len(value)] \notin Whitespace)

\* C7: extract_contact_info gives a field exactly when some line's first
\* marker (name:, email:, phone: in that order, any letter case) is that
\* field's, its value being the trimmed text after the first colon of such a
\* line; lines without a marker add nothing; and the message
\* "My name: Jane Doe\nemail: jane@x.com" gives name and email and no phone.
C7_ExtractByLineMarkers ==
    ExtractReturned =>
        LET lines == str_split(call.message, "\n")
            info == call.result
        IN  /\ DOMAIN info = {winning_field(lines[i]) : i \in 1..Len(lines)} \ {None}
            /\ \A f \in DOMAIN info :
                   \E i \in 1..Len(lines) :
                       winning_field(lines[i]) = f /\ is_trimmed_rest(info[f], lines[i])
            /\ call.message = JaneMessage =>
                   (/\ DOMAIN info = {"name", "email"}
                    /\ info["name"] = JaneDoe
                    /\ info["email"] = JaneEmail)

\* the Jane Doe message was extracted, the marker of its first line in mid-line
C7_Witness ==
    /\ ExtractReturned
    /\ call.message = JaneMessage
    /\ "name" \in DOMAIN call.result

\* C8: the response a request returns ends with the thank-you suffix exactly
\* when the request persisted a lead, and is then the reply with the suffix;
\* every other returned response is the generated reply unchanged.
C8_SuffixIffLeadPersisted ==
    \A r \in DOMAIN req :
        req[r].pc = "done" =>
            /\ str_endswith(req[r].response, THANKS) <=> req[r].lead_id # 0
            /\ req[r].lead_id # 0 => req[r].response = req[r].reply \o THANKS
            /\ req[r].lead_id = 0 => req[r].response = req[r].reply

\* a request persisted a lead and returned, the mail having failed
C8_Witness ==
    \E r \in DOMAIN req :
        /\ req[r].pc = "done"
        /\ req[r].lead_id # 0
        /\ ~req[r].notified
        /\ str_endswith(req[r].response, THANKS)

\* C9: the history a request hands to generate_response is the session's
\* history as the request arrived, without the request's own message: empty
\* for the first message of a session.
C9_HistoryIsPriorTurns ==
    \A r \in DOMAIN req : Loaded(r) => req[r].chat_history = req[r].prior

TurnOf(r, id, role, message) ==
    /\ id \in DOMAIN chats_collection
    /\ chats_collection[id]._id = id
    /\ chats_collection[id].session_id = req[r].session_id
    /\ chats_collection[id].role = role
    /\ chats_collection[id].message = message

TurnsWritten ==
    /\ \A r \in DOMAIN req :
           req[r].pc = "done" =>
               /\ TurnOf(r, req[r].user_id, RoleUser, req[r].message)
               /\ TurnOf(r, req[r].assistant_id, RoleAssistant, req[r].reply)
               /\ req[r].user_id < req[r].assistant_id
               /\ chats_collection[req[r].user_id].timestamp
                      < chats_collection[req[r].assistant_id].timestamp
    /\ \A r, q \in DOMAIN req :
           (r # q /\ req[r].pc = "done" /\ req[q].pc = "done") =>
               {req[r].user_id, req[r].assistant_id}
                   \cap {req[q].user_id, req[q].assistant_id} = {}
    /\ (\A r \in DOMAIN req : req[r].pc = "done") =>
           Len(chats_collection) = 2 * Cardinality(DOMAIN req)

AppendOnly ==
    /\ Len(chats_collection') >= Len(chats_collection)
    /\ \A i \in DOMAIN chats_collection : chats_collection'[i] = chats_collection[i]

\* C10: under any interleaving of requests with no store failure the chat log
\* only grows, no written turn changing, and every completed request has in
\* it exactly one user turn and one assistant turn of its own session, the
\* user turn first.
C10_LogAppendOnly == [](TurnsWritten) /\ [][AppendOnly]_vars

\* two requests of one session completed, their turns interleaved in the log
C10_Witness ==
    \E r, q \in DOMAIN req :
        /\ r # q
        /\ req[r].pc = "done" /\ req[q].pc = "done"
        /\ req[r].session_id = req[q].session_id
        /\ req[r].user_id < req[q].user_id
        /\ req[q].user_id < req[r].assistant_id

====
